---- MODULE Spec2Model ----
(***************************************************************************)
(* Model of qf_lib.backtesting.order.order_factory.OrderFactory: the six   *)
(* public calls that turn quantities, target quantities, values,           *)
(* percentages, target values and target percentages into a list of        *)
(* Orders, together with the broker, the data provider and the contract    *)
(* to ticker mapper they read.                                             *)
(*                                                                         *)
(* Numbers.  Python floats are modelled as exact rationals <<n, d>> with   *)
(* d > 0 and gcd(n, d) = 1, extended with the three IEEE specials the code *)
(* can produce by dividing by a zero numpy price: <<1, 0>> is +inf,        *)
(* <<-1, 0>> is -inf and <<0, 0>> is NaN.  Rounding error of the binary    *)
(* representation is not modelled.                                         *)
(***************************************************************************)
EXTENDS Integers, Sequences, FiniteSets, TLC

----------------------------------------------------------------------------
(* Extended rational arithmetic                                            *)

Abs(i) == IF i < 0 THEN -i ELSE i

Sgn(i) == IF i < 0 THEN -1 ELSE IF i > 0 THEN 1 ELSE 0

RECURSIVE Gcd(_, _)
Gcd(a, b) == IF b = 0 THEN a ELSE Gcd(b, a % b)

\* the rational n/d in lowest terms, for d > 0
Norm(n, d) == LET g == Gcd(Abs(n), d) IN <<n \div g, d \div g>>

Int2R(i) == <<i, 1>>
Zero == <<0, 1>>
NaN == <<0, 0>>
PInf == <<1, 0>>
NInf == <<-1, 0>>

IsFin(x) == x[2] > 0
IsNaN(x) == x = NaN
IsInf(x) == x[2] = 0 /\ x[1] # 0
RSgn(x) == Sgn(x[1])
InfOf(s) == <<s, 0>>

\* x * y on floats
RMul(x, y) ==
    IF IsNaN(x) \/ IsNaN(y) THEN NaN
    ELSE IF IsInf(x) \/ IsInf(y)
         THEN IF RSgn(x) = 0 \/ RSgn(y) = 0 THEN NaN ELSE InfOf(RSgn(x) * RSgn(y))
         ELSE Norm(x[1] * y[1], x[2] * y[2])

\* x / y where y is a numpy float: a zero divisor gives inf or nan, not an exception
RDiv(x, y) ==
    IF IsNaN(x) \/ IsNaN(y) THEN NaN
    ELSE IF IsInf(y) THEN (IF IsInf(x) THEN NaN ELSE Zero)
    ELSE IF RSgn(y) = 0 THEN (IF RSgn(x) = 0 THEN NaN ELSE InfOf(RSgn(x)))
    ELSE IF IsInf(x) THEN InfOf(RSgn(x) * RSgn(y))
    ELSE Norm(x[1] * y[2] * RSgn(y), x[2] * Abs(y[1]))

\* x - y on floats
RSub(x, y) ==
    IF IsNaN(x) \/ IsNaN(y) THEN NaN
    ELSE IF IsInf(x) THEN (IF IsInf(y) /\ RSgn(x) = RSgn(y) THEN NaN ELSE x)
    ELSE IF IsInf(y) THEN InfOf(-RSgn(y))
    ELSE Norm(x[1] * y[2] - y[1] * x[2], x[2] * y[2])

\* x + y on floats
RAdd(x, y) == RSub(x, <<-y[1], y[2]>>)

\* abs(x)
RAbs(x) == <<Abs(x[1]), x[2]>>

\* x > y on floats: every comparison with NaN is False
RGt(x, y) ==
    IF IsNaN(x) \/ IsNaN(y) THEN FALSE
    ELSE IF IsInf(x) THEN RSgn(x) = 1 /\ y # PInf
    ELSE IF IsInf(y) THEN RSgn(y) = -1
    ELSE x[1] * y[2] > y[1] * x[2]

RGe(x, y) == ~IsNaN(x) /\ ~IsNaN(y) /\ (x = y \/ RGt(x, y))
RLt(x, y) == RGt(y, x)
RLe(x, y) == RGe(y, x)

\* x != 0 on floats (NaN != 0 and inf != 0 are True)
RNonZero(x) == x # Zero

\* int(x): rounds toward zero
RTruncate(x) == Int2R(Sgn(x[1]) * (Abs(x[1]) \div x[2]))

\* math.ceil(x) of a finite float: the smallest integer not below x
RCeil(x) == Int2R(-((-x[1]) \div x[2]))

\* rounding to the nearest whole number, halves upwards
RRound(x) == Int2R((2 * x[1] + x[2]) \div (2 * x[2]))

\* math.floor(x) of a finite float: the largest integer not above x
RFloor(x) == Int2R(x[1] \div x[2])

\* math.floor raises OverflowError on an infinity and ValueError on NaN
FloorRaises(x) == ~IsFin(x)

\* the exception math.floor raises on a float that is not finite
FloorError(x) == IF IsNaN(x) THEN "ValueError" ELSE "OverflowError"

IsWhole(x) == x[2] = 1

----------------------------------------------------------------------------
(* Python values: Optional, dict                                           *)

\* an Optional value: <<>> is None (or "absent"), <<v>> is the value v
None == <<>>
Some(v) == <<v>>

\* A dict is the sequence of its (key, value) items in insertion order,
\* with no key twice.
EmptyDict == <<>>
Keys(d) == {d[i][1] : i \in DOMAIN d}
HasKey(d, k) == \E i \in DOMAIN d : d[i][1] = k
\* d.get(k, default)
Get(d, k, default) ==
    IF HasKey(d, k) THEN d[CHOOSE i \in DOMAIN d : d[i][1] = k][2] ELSE default
\* d[k] = v: an existing key keeps its place and takes the new value
Put(d, k, v) ==
    IF HasKey(d, k)
    THEN [i \in DOMAIN d |-> IF d[i][1] = k THEN <<k, v>> ELSE d[i]]
    ELSE Append(d, <<k, v>>)

----------------------------------------------------------------------------
(* The collaborators' data                                                 *)

Contracts == {"A", "B"}
Tickers == {"TA", "TB"}
Unmapped == "unmapped"

\* Contract.contract_size
contract_size(contract) == IF contract = "A" THEN 1 ELSE 2

\* frequency = None lets the data provider use its default frequency
Frequencies == {"None", "MIN_1"}

\* Order(contract, quantity, execution_style, time_in_force)
Order(contract, quantity, execution_style, time_in_force) ==
    [contract |-> contract, quantity |-> quantity,
     execution_style |-> execution_style, time_in_force |-> time_in_force]

\* a call that returned a list of orders, and a call that raised
Returned(order_list) == [status |-> "returned", orders |-> order_list, error |-> ""]
Raised(error) == [status |-> "raised", orders |-> <<>>, error |-> error]
Pending == [status |-> "pending", orders |-> <<>>, error |-> ""]

\* target_orders() taking every contract as not held
CurrentQuantityNotHeld(contract_to_positions, contract) == Zero

\* position.quantity() of the position held in the contract, 0 without one
CurrentQuantity(contract_to_positions, contract) ==
    LET position == contract_to_positions[contract]
    IN  IF position # None THEN Int2R(position[1]) ELSE Zero

----------------------------------------------------------------------------
(* OrderFactory: the bodies of the methods                                 *)

\* orders() without its test of the quantity
OrderListKeepingZero(quantities, execution_style, time_in_force) ==
    [i \in 1..Len(quantities) |->
        Order(quantities[i][1], quantities[i][2], execution_style, time_in_force)]

\* orders() testing quantity > 0
OrderListBuysOnly(quantities, execution_style, time_in_force) ==
    LET kept == SelectSeq(quantities, LAMBDA item : RGt(item[2], Zero))
    IN  [i \in 1..Len(kept) |->
            Order(kept[i][1], kept[i][2], execution_style, time_in_force)]

\* orders(): one Order per item whose quantity != 0, in the mapping's order
OrderList(quantities, execution_style, time_in_force) ==
    LET kept == SelectSeq(quantities, LAMBDA item : RNonZero(item[2]))
    IN  [i \in 1..Len(kept) |->
            Order(kept[i][1], kept[i][2], execution_style, time_in_force)]

\* target_orders() testing abs(quantity) >= tolerance_quantity
OutsideToleranceInclusive(quantity, tolerance_quantity) ==
    RGe(RAbs(quantity), tolerance_quantity) /\ RNonZero(quantity)

\* target_orders(): whether the item's difference to the holding is traded
OutsideTolerance(quantity, tolerance_quantity) ==
    RGt(RAbs(quantity), tolerance_quantity) /\ RNonZero(quantity)

\* target_orders() taking the target itself as the quantity to trade
DifferenceIgnoringHolding(target_quantity, current_quantity) == target_quantity

\* target_orders(): quantity = target_quantity - current_quantity
Difference(target_quantity, current_quantity) == RSub(target_quantity, current_quantity)

\* target_orders(): the loop over target_quantities.items() from item i on;
\* math.floor raising ends the call
RECURSIVE TargetLoop(_, _, _, _, _)
TargetLoop(target_quantities, tolerance_quantities, contract_to_positions, i, quantities) ==
    IF i > Len(target_quantities) THEN [error |-> "", quantities |-> quantities]
    ELSE LET contract == target_quantities[i][1]
             target_quantity == target_quantities[i][2]
             tolerance_quantity == Get(tolerance_quantities, contract, Zero)
             current_quantity == CurrentQuantity(contract_to_positions, contract)
             quantity == Difference(target_quantity, current_quantity)
         IN  IF OutsideTolerance(quantity, tolerance_quantity)
             THEN IF FloorRaises(quantity)
                  THEN [error |-> FloorError(quantity), quantities |-> quantities]
                  ELSE TargetLoop(target_quantities, tolerance_quantities,
                                  contract_to_positions, i + 1,
                                  Put(quantities, contract, RFloor(quantity)))
             ELSE TargetLoop(target_quantities, tolerance_quantities,
                             contract_to_positions, i + 1, quantities)

\* _make_tickers_to_contract_and_amount_of_money() passing over a contract the
\* mapper does not know
RECURSIVE MakeTickersSkippingUnknown(_, _, _, _)
MakeTickersSkippingUnknown(contract_to_amount_of_money, mapping, i, tickers_to) ==
    IF i > Len(contract_to_amount_of_money)
    THEN [error |-> "", tickers_to |-> tickers_to, mapper_reads |-> i - 1]
    ELSE LET contract == contract_to_amount_of_money[i][1]
             amount_of_money == contract_to_amount_of_money[i][2]
             ticker == mapping[contract]
         IN  MakeTickersSkippingUnknown(
                 contract_to_amount_of_money, mapping, i + 1,
                 IF ticker = Unmapped THEN tickers_to
                 ELSE Put(tickers_to, ticker, <<contract, amount_of_money>>))

\* _make_tickers_to_contract_and_amount_of_money(): ticker -> (contract, money);
\* a contract the mapper does not know ends the call
RECURSIVE MakeTickers(_, _, _, _)
MakeTickers(contract_to_amount_of_money, mapping, i, tickers_to) ==
    IF i > Len(contract_to_amount_of_money)
    THEN [error |-> "", tickers_to |-> tickers_to, mapper_reads |-> i - 1]
    ELSE LET contract == contract_to_amount_of_money[i][1]
             amount_of_money == contract_to_amount_of_money[i][2]
             ticker == mapping[contract]
         IN  IF ticker = Unmapped
             THEN [error |-> "MappingFault", tickers_to |-> tickers_to, mapper_reads |-> i]
             ELSE MakeTickers(contract_to_amount_of_money, mapping, i + 1,
                              Put(tickers_to, ticker, <<contract, amount_of_money>>))

\* get_last_available_price(tickers, frequency): the price of each ticker asked for
LastAvailablePrice(price_table, tickers_to, frequency) ==
    [i \in 1..Len(tickers_to) |-> <<tickers_to[i][1], price_table[frequency][tickers_to[i][1]]>>]

\* the data provider has no price for one of the tickers
PriceUnavailable(current_prices) == \E i \in DOMAIN current_prices : IsNaN(current_prices[i][2])

\* the shares resolved without the contract's size: amount_of_money / current_price
TargetQuantityPerUnitPrice(amount_of_money, current_price, contract) ==
    RDiv(amount_of_money, current_price)

\* amount_of_money / (current_price * contract.contract_size)
TargetQuantity(amount_of_money, current_price, contract) ==
    RDiv(amount_of_money, RMul(current_price, Int2R(contract_size(contract))))

\* target_quantity * tolerance_percentage
ToleranceQuantity(target_quantity, tolerance_percentage) ==
    RMul(target_quantity, tolerance_percentage)

\* _calculate_target_shares_and_tolerances(): the loop over the tickers from i on
RECURSIVE SharesLoop(_, _, _, _, _, _)
SharesLoop(tickers_to, current_prices, tolerance_percentage, i, targets, tolerances) ==
    IF i > Len(tickers_to) THEN [target_quantities |-> targets, tolerance_quantities |-> tolerances]
    ELSE LET ticker == tickers_to[i][1]
             contract == tickers_to[i][2][1]
             amount_of_money == tickers_to[i][2][2]
             current_price == Get(current_prices, ticker, NaN)
             target_quantity == TargetQuantity(amount_of_money, current_price, contract)
             tolerance_quantity == ToleranceQuantity(target_quantity, tolerance_percentage)
         IN  SharesLoop(tickers_to, current_prices, tolerance_percentage, i + 1,
                        Put(targets, contract, target_quantity),
                        Put(tolerances, contract, tolerance_quantity))

\* _calculate_target_shares_and_tolerances() asking the data provider for the
\* price of one ticker at a time, inside its loop
CalculateAskingPricePerTicker(contract_to_amount_of_money, tolerance_percentage, frequency, mapping, price_table) ==
    LET made == MakeTickers(contract_to_amount_of_money, mapping, 1, EmptyDict)
        current_prices == LastAvailablePrice(price_table, made.tickers_to, frequency)
        shares == SharesLoop(made.tickers_to, current_prices, tolerance_percentage,
                             1, EmptyDict, EmptyDict)
    IN  IF made.error # ""
        THEN [error |-> made.error, mapper_reads |-> made.mapper_reads,
              price_reads |-> 0, current_prices |-> EmptyDict,
              target_quantities |-> EmptyDict, tolerance_quantities |-> EmptyDict]
        ELSE IF PriceUnavailable(current_prices)
        THEN [error |-> "PriceUnavailableFault", mapper_reads |-> made.mapper_reads,
              price_reads |-> 1,
              current_prices |-> current_prices,
              target_quantities |-> EmptyDict, tolerance_quantities |-> EmptyDict]
        ELSE [error |-> "", mapper_reads |-> made.mapper_reads,
              price_reads |-> Len(made.tickers_to), current_prices |-> current_prices,
              target_quantities |-> shares.target_quantities,
              tolerance_quantities |-> shares.tolerance_quantities]

\* _calculate_target_shares_and_tolerances()
CalculateTargetSharesAndTolerances(contract_to_amount_of_money, tolerance_percentage, frequency, mapping, price_table) ==
    LET made == MakeTickers(contract_to_amount_of_money, mapping, 1, EmptyDict)
        current_prices == LastAvailablePrice(price_table, made.tickers_to, frequency)
        shares == SharesLoop(made.tickers_to, current_prices, tolerance_percentage,
                             1, EmptyDict, EmptyDict)
    IN  IF made.error # ""
        THEN [error |-> made.error, mapper_reads |-> made.mapper_reads,
              price_reads |-> 0, current_prices |-> EmptyDict,
              target_quantities |-> EmptyDict, tolerance_quantities |-> EmptyDict]
        ELSE IF PriceUnavailable(current_prices)
        THEN [error |-> "PriceUnavailableFault", mapper_reads |-> made.mapper_reads,
              price_reads |-> 1,
              current_prices |-> current_prices,
              target_quantities |-> EmptyDict, tolerance_quantities |-> EmptyDict]
        ELSE [error |-> "", mapper_reads |-> made.mapper_reads,
              price_reads |-> 1, current_prices |-> current_prices,
              target_quantities |-> shares.target_quantities,
              tolerance_quantities |-> shares.tolerance_quantities]

\* value_orders(): {contract: math.floor(quantity)}; math.floor raising ends the call
RECURSIVE FloorAll(_, _, _)
FloorAll(quantities, i, int_quantities) ==
    IF i > Len(quantities) THEN [error |-> "", quantities |-> int_quantities]
    ELSE IF FloorRaises(quantities[i][2])
         THEN [error |-> FloorError(quantities[i][2]), quantities |-> int_quantities]
         ELSE FloorAll(quantities, i + 1,
                       Put(int_quantities, quantities[i][1], RFloor(quantities[i][2])))

\* percent_orders() taking the fractions as the money amounts
PercentagesAsValues(portfolio_value, percentages) == percentages

\* {contract: portfolio_value * fraction for contract, fraction in percentages.items()}
PercentagesToValues(portfolio_value, percentages) ==
    [i \in 1..Len(percentages) |->
        <<percentages[i][1], RMul(portfolio_value, percentages[i][2])>>]

\* the assertion written 0.0 <= tolerance_percentage <= 1.0
ToleranceInRangeClosed(tolerance_percentage) ==
    RLe(Zero, tolerance_percentage) /\ RLe(tolerance_percentage, Int2R(1))

\* assert 0.0 <= tolerance_percentage < 1.0
ToleranceInRange(tolerance_percentage) ==
    RLe(Zero, tolerance_percentage) /\ RLt(tolerance_percentage, Int2R(1))

\* target_orders() on the holdings it reads: the tolerances it uses, the mapping
\* it hands to orders() and what it returns or raises
TargetOrders(target_quantities, execution_style, time_in_force, tolerance_quantities, held) ==
    LET tolerances == IF tolerance_quantities = None THEN EmptyDict
                      ELSE tolerance_quantities[1]
        looped == TargetLoop(target_quantities, tolerances, held, 1, EmptyDict)
    IN  [tolerance_quantities |-> Some(tolerances),
         quantities |-> looped.quantities,
         result |-> IF looped.error # "" THEN Raised(looped.error)
                    ELSE Returned(OrderList(looped.quantities, execution_style,
                                            time_in_force))]

\* value_orders() on the mapper and the prices it reads: the shares are resolved
\* with the default tolerance_percentage = 0.0, floored and handed to orders()
ValueOrders(values, execution_style, time_in_force, frequency, mapping, price_table) ==
    LET shares == CalculateTargetSharesAndTolerances(values, Zero, frequency,
                                                     mapping, price_table)
        floored == FloorAll(shares.target_quantities, 1, EmptyDict)
    IN  [current_prices |-> shares.current_prices,
         mapper_reads |-> shares.mapper_reads,
         price_reads |-> shares.price_reads,
         target_quantities |-> shares.target_quantities,
         quantities |-> floored.quantities,
         result |-> IF shares.error # "" THEN Raised(shares.error)
                    ELSE IF floored.error # "" THEN Raised(floored.error)
                    ELSE Returned(OrderList(floored.quantities, execution_style,
                                            time_in_force))]

\* target_value_orders() up to its call of target_orders(): the assertion and the
\* resolution of the shares and of the tolerances
TargetValueShares(target_values, tolerance_percentage, frequency, mapping, price_table) ==
    IF ~ToleranceInRange(tolerance_percentage)
    THEN [error |-> "AssertionError", mapper_reads |-> 0,
          price_reads |-> 0, current_prices |-> EmptyDict,
          target_quantities |-> EmptyDict, tolerance_quantities |-> EmptyDict]
    ELSE CalculateTargetSharesAndTolerances(target_values, tolerance_percentage,
                                            frequency, mapping, price_table)

\* target_value_orders() on the mapper, the prices and the holdings it reads:
\* what it returns or raises
TargetValueOrders(target_values, execution_style, time_in_force, tolerance_percentage, frequency, mapping, price_table, held) ==
    LET shares == TargetValueShares(target_values, tolerance_percentage, frequency,
                                    mapping, price_table)
    IN  IF shares.error # "" THEN Raised(shares.error)
        ELSE TargetOrders(shares.target_quantities, execution_style, time_in_force,
                          Some(shares.tolerance_quantities), held).result

\* the execution_style, time_in_force, tolerance_percentage and frequency a
\* method hands to the method it delegates to
ArgsToValueOrders(given) == given

\* target_percent_orders() passing time_in_force and execution_style in each
\* other's position
ArgsSwappingStyleAndTimeInForce(given) ==
    [given EXCEPT !.execution_style = given.time_in_force,
                  !.time_in_force = given.execution_style]

ArgsToTargetValueOrders(given) == given
ArgsToTargetOrders(given) == given

----------------------------------------------------------------------------
(* Bounds and input sets                                                   *)

\* how many times other actors change the broker or the market in a behaviour
MaxEvents == 1

R(n, d) == Norm(n, d)

\* (execution_style, time_in_force, frequency) of a request
CallOptions == { <<"MarketOrder", "DAY", "None">>, <<"StopOrder", "GTC", "MIN_1">> }

\* the requests {A: x}, {B: y} and {B: y, A: x}
Requests(forA, forB) ==
    { << <<"A", x>> >> : x \in forA } \cup { << <<"B", y>> >> : y \in forB }
    \cup { << <<"B", y>>, <<"A", x>> >> : x \in forA, y \in forB }

QuantityRequests == Requests({Zero, R(3, 1), R(-2, 1), R(5, 2)}, {Zero, R(-1, 1)})
TargetQuantityRequests ==
    Requests({Zero, R(2, 1), R(5, 2), R(23, 10), R(-23, 10), R(101, 1), R(103, 1)},
             {R(-7, 2)})
ToleranceQuantities ==
    { None, Some(<< <<"A", R(2, 1)>> >>), Some(<< <<"A", R(-1, 1)>> >>),
      Some(<< <<"A", Zero>>, <<"B", R(1, 2)>> >>) }
ValueRequests ==
    Requests({Zero, R(250, 1), R(-250, 1), R(10500, 1), R(13000, 1)}, {R(500, 1)})
PercentageRequests ==
    Requests({Zero, R(1, 2), R(-1, 4), R(1, 104)}, {R(1, 13)})
TolerancePercentages == {Zero, R(1, 10), R(1, 1), R(-1, 10)}

\* states of the broker: what it holds in each contract (no position, or a
\* position of a quantity) and the value of the portfolio
Held(a, b) == [c \in Contracts |-> IF c = "A" THEN a ELSE b]
BrokerStates ==
    { [positions |-> Held(None, None), value |-> R(26000, 1)],
      [positions |-> Held(Some(100), None), value |-> R(26000, 1)],
      [positions |-> Held(Some(2), Some(-3)), value |-> R(21000, 1)] }

\* the data provider's last prices per frequency and ticker; NaN: no price
PriceTables ==
    { [f \in Frequencies |-> [t \in Tickers |->
          IF t = "TB" THEN R(2, 1) ELSE IF f = "None" THEN R(100, 1) ELSE R(50, 1)]],
      [f \in Frequencies |-> [t \in Tickers |->
          IF t = "TB" THEN R(2, 1) ELSE IF f = "None" THEN Zero ELSE NaN]] }

\* the contract to ticker mappers: one to one, two contracts of one ticker,
\* and a contract the mapper does not know
Mappers ==
    { [c \in Contracts |-> IF c = "A" THEN "TA" ELSE "TB"],
      [c \in Contracts |-> "TA"],
      [c \in Contracts |-> IF c = "A" THEN "TA" ELSE Unmapped] }

----------------------------------------------------------------------------
(* State                                                                   *)

VARIABLES
    positions,              \* broker: contract -> Optional quantity held
    broker_value,           \* broker: what get_portfolio_value() returns
    price_table,            \* data provider: frequency -> ticker -> last price
    mapping,                \* contract_to_ticker_mapper: contract -> ticker
    pc,                     \* the method about to run, "idle" or "done"
    call,                   \* the caller's request: method and arguments
    given,                  \* the arguments handed to the method about to run
    portfolio_value,        \* local of percent_orders / target_percent_orders
    values,                 \* values / target_values
    current_prices,         \* local of _calculate_target_shares_and_tolerances
    target_quantities,      \* the real-valued share amounts
    tolerance_quantities,   \* Optional dict of share tolerances
    contract_to_positions,  \* local of target_orders
    quantities,             \* the mapping handed to orders()
    result,                 \* what the caller's request returned or raised
    reads,                  \* external reads made by the request so far
    filled,                 \* the returned orders have been executed
    events,                 \* how many times other actors have acted
    prev                    \* Optional record of the previous issue of the request

env == <<positions, broker_value, price_table, mapping>>
locals == <<portfolio_value, values, current_prices, target_quantities,
            tolerance_quantities, contract_to_positions, quantities>>
vars == <<positions, broker_value, price_table, mapping, pc, call, given,
          portfolio_value, values, current_prices, target_quantities,
          tolerance_quantities, contract_to_positions, quantities, result,
          reads, filled, events, prev>>

Methods == {"orders", "target_orders", "value_orders", "percent_orders",
            "target_value_orders", "target_percent_orders"}

NoPositions == [c \in Contracts |-> None]
NoReads == [portfolio_value |-> 0, mapper |-> 0, prices |-> 0, positions |-> 0]
NoCall == [method |-> "", amounts |-> EmptyDict, execution_style |-> "",
           time_in_force |-> "", tolerance_quantities |-> None,
           tolerance_percentage |-> Zero, frequency |-> "None"]

\* the requests a caller can make: the arguments a method does not take are
\* left at their defaults
CallRequests ==
    { [method |-> "orders", amounts |-> q, execution_style |-> o[1],
       time_in_force |-> o[2], tolerance_quantities |-> None,
       tolerance_percentage |-> Zero, frequency |-> "None"] :
         q \in QuantityRequests, o \in CallOptions }
    \cup
    { [method |-> "target_orders", amounts |-> q, execution_style |-> o[1],
       time_in_force |-> o[2], tolerance_quantities |-> t,
       tolerance_percentage |-> Zero, frequency |-> "None"] :
         q \in TargetQuantityRequests, o \in CallOptions, t \in ToleranceQuantities }
    \cup
    { [method |-> m, amounts |-> q, execution_style |-> o[1],
       time_in_force |-> o[2], tolerance_quantities |-> None,
       tolerance_percentage |-> Zero, frequency |-> o[3]] :
         m \in {"value_orders"}, q \in ValueRequests, o \in CallOptions }
    \cup
    { [method |-> m, amounts |-> q, execution_style |-> o[1],
       time_in_force |-> o[2], tolerance_quantities |-> None,
       tolerance_percentage |-> Zero, frequency |-> o[3]] :
         m \in {"percent_orders"}, q \in PercentageRequests, o \in CallOptions }
    \cup
    { [method |-> m, amounts |-> q, execution_style |-> o[1],
       time_in_force |-> o[2], tolerance_quantities |-> None,
       tolerance_percentage |-> p, frequency |-> o[3]] :
         m \in {"target_value_orders"}, q \in ValueRequests, o \in CallOptions,
         p \in TolerancePercentages }
    \cup
    { [method |-> m, amounts |-> q, execution_style |-> o[1],
       time_in_force |-> o[2], tolerance_quantities |-> None,
       tolerance_percentage |-> p, frequency |-> o[3]] :
         m \in {"target_percent_orders"}, q \in PercentageRequests, o \in CallOptions,
         p \in TolerancePercentages }

Init ==
    /\ \E b \in BrokerStates : positions = b.positions /\ broker_value = b.value
    /\ price_table \in PriceTables
    /\ mapping \in Mappers
    /\ pc = "idle"
    /\ call = NoCall
    /\ given = [execution_style |-> "", time_in_force |-> "",
                tolerance_percentage |-> Zero, frequency |-> "None"]
    /\ portfolio_value = Zero
    /\ values = EmptyDict
    /\ current_prices = EmptyDict
    /\ target_quantities = EmptyDict
    /\ tolerance_quantities = None
    /\ contract_to_positions = NoPositions
    /\ quantities = EmptyDict
    /\ result = Pending
    /\ reads = NoReads
    /\ filled = FALSE
    /\ events = 0
    /\ prev = None

----------------------------------------------------------------------------
(* The caller                                                              *)

\* the caller's request c enters its method: the arguments land in the
\* method's parameters, every local is fresh
Enter(c) ==
    /\ call' = c
    /\ pc' = c.method
    /\ given' = [execution_style |-> c.execution_style, time_in_force |-> c.time_in_force,
                 tolerance_percentage |-> c.tolerance_percentage, frequency |-> c.frequency]
    /\ portfolio_value' = Zero
    /\ values' = IF c.method \in {"value_orders", "target_value_orders"}
                 THEN c.amounts ELSE EmptyDict
    /\ current_prices' = EmptyDict
    /\ target_quantities' = IF c.method = "target_orders" THEN c.amounts ELSE EmptyDict
    /\ tolerance_quantities' = c.tolerance_quantities
    /\ contract_to_positions' = NoPositions
    /\ quantities' = IF c.method = "orders" THEN c.amounts ELSE EmptyDict
    /\ result' = Pending
    /\ reads' = NoReads
    /\ filled' = FALSE

\* a caller issues a request
Invoke ==
    /\ pc = "idle"
    /\ \E c \in CallRequests : Enter(c)
    /\ prev' = None
    /\ UNCHANGED <<env, events>>

\* the caller issues the same request once more
CallAgain ==
    /\ pc = "done"
    /\ prev = None
    /\ Enter(call)
    /\ prev' = Some([result |-> result, current_prices |-> current_prices,
                     contract_to_positions |-> contract_to_positions,
                     portfolio_value |-> portfolio_value,
                     positions |-> positions, filled |-> filled])
    /\ UNCHANGED <<env, events>>

----------------------------------------------------------------------------
(* OrderFactory: the methods                                               *)

Finish(outcome) ==
    /\ result' = outcome
    /\ pc' = "done"

\* orders(quantities, execution_style, time_in_force)
orders ==
    /\ pc = "orders"
    /\ Finish(Returned(OrderList(quantities, given.execution_style, given.time_in_force)))
    /\ UNCHANGED <<env, call, given, locals, reads, filled, events, prev>>

\* target_orders() writing the default tolerance 0 of a contract into the
\* mapping the caller gave it (setdefault in place of get)
target_orders_defaulting_in_place ==
    /\ pc = "target_orders"
    /\ LET done == TargetOrders(target_quantities, given.execution_style,
                                given.time_in_force, tolerance_quantities, positions)
           defaulted == [i \in DOMAIN target_quantities |-> <<target_quantities[i][1], Zero>>]
           written == IF tolerance_quantities = None THEN None
                      ELSE Some(tolerance_quantities[1] \o
                                SelectSeq(defaulted, LAMBDA item :
                                    ~HasKey(tolerance_quantities[1], item[1])))
       IN  /\ tolerance_quantities' = IF written = None THEN done.tolerance_quantities
                                      ELSE written
           /\ call' = IF call.method = "target_orders"
                      THEN [call EXCEPT !.tolerance_quantities = written] ELSE call
           /\ contract_to_positions' = positions
           /\ reads' = [reads EXCEPT !.positions = @ + 1]
           /\ quantities' = done.quantities
           /\ Finish(done.result)
    /\ UNCHANGED <<env, given, portfolio_value, values, current_prices,
                   target_quantities, filled, events, prev>>

\* target_orders(target_quantities, execution_style, time_in_force, tolerance_quantities):
\* reads the positions, keeps the differences outside tolerance and ends in orders()
target_orders ==
    /\ pc = "target_orders"
    /\ LET done == TargetOrders(target_quantities, given.execution_style,
                                given.time_in_force, tolerance_quantities, positions)
       IN  /\ tolerance_quantities' = done.tolerance_quantities
           /\ contract_to_positions' = positions
           /\ reads' = [reads EXCEPT !.positions = @ + 1]
           /\ quantities' = done.quantities
           /\ Finish(done.result)
    /\ UNCHANGED <<env, call, given, portfolio_value, values, current_prices,
                   target_quantities, filled, events, prev>>

\* value_orders() ending in target_orders() instead of orders()
value_orders_reconciled ==
    /\ pc = "value_orders"
    /\ LET shares == CalculateTargetSharesAndTolerances(values, Zero, given.frequency,
                                                        mapping, price_table)
       IN  /\ current_prices' = shares.current_prices
           /\ reads' = [reads EXCEPT !.mapper = @ + shares.mapper_reads,
                                     !.prices = @ + shares.price_reads]
           /\ target_quantities' = shares.target_quantities
           /\ IF shares.error # ""
              THEN Finish(Raised(shares.error)) /\ UNCHANGED tolerance_quantities
              ELSE /\ tolerance_quantities' = Some(shares.tolerance_quantities)
                   /\ pc' = "target_orders"
                   /\ UNCHANGED result
    /\ UNCHANGED <<env, call, given, portfolio_value, values, contract_to_positions,
                   quantities, filled, events, prev>>

\* value_orders(values, execution_style, time_in_force, frequency): reads the
\* prices, floors the shares and ends in orders()
value_orders ==
    /\ pc = "value_orders"
    /\ LET done == ValueOrders(values, given.execution_style, given.time_in_force,
                               given.frequency, mapping, price_table)
       IN  /\ current_prices' = done.current_prices
           /\ reads' = [reads EXCEPT !.mapper = @ + done.mapper_reads,
                                     !.prices = @ + done.price_reads]
           /\ target_quantities' = done.target_quantities
           /\ quantities' = done.quantities
           /\ Finish(done.result)
    /\ UNCHANGED <<env, call, given, portfolio_value, values, tolerance_quantities,
                   contract_to_positions, filled, events, prev>>

\* percent_orders(percentages, execution_style, time_in_force, frequency): reads
\* the portfolio value and calls value_orders
percent_orders ==
    /\ pc = "percent_orders"
    /\ portfolio_value' = broker_value
    /\ reads' = [reads EXCEPT !.portfolio_value = @ + 1]
    /\ values' = PercentagesToValues(broker_value, call.amounts)
    /\ given' = ArgsToValueOrders(given)
    /\ pc' = "value_orders"
    /\ UNCHANGED <<env, call, current_prices, target_quantities, tolerance_quantities,
                   contract_to_positions, quantities, result, filled, events, prev>>

\* target_value_orders(target_values, execution_style, time_in_force,
\* tolerance_percentage, frequency): checks the tolerance, reads the prices,
\* resolves the shares and the tolerances and calls target_orders
target_value_orders ==
    /\ pc = "target_value_orders"
    /\ LET shares == TargetValueShares(values, given.tolerance_percentage,
                                       given.frequency, mapping, price_table)
       IN  /\ current_prices' = shares.current_prices
           /\ reads' = [reads EXCEPT !.mapper = @ + shares.mapper_reads,
                                     !.prices = @ + shares.price_reads]
           /\ target_quantities' = shares.target_quantities
           /\ IF shares.error # ""
              THEN /\ Finish(Raised(shares.error))
                   /\ UNCHANGED <<given, tolerance_quantities>>
              ELSE /\ tolerance_quantities' = Some(shares.tolerance_quantities)
                   /\ given' = ArgsToTargetOrders(given)
                   /\ pc' = "target_orders"
                   /\ UNCHANGED result
    /\ UNCHANGED <<env, call, portfolio_value, values, contract_to_positions,
                   quantities, filled, events, prev>>

\* target_percent_orders(target_percentages, execution_style, time_in_force,
\* tolerance_percentage, frequency): checks the tolerance, reads the portfolio
\* value and calls target_value_orders
target_percent_orders ==
    /\ pc = "target_percent_orders"
    /\ IF ~ToleranceInRange(given.tolerance_percentage)
       THEN /\ Finish(Raised("AssertionError"))
            /\ UNCHANGED <<given, portfolio_value, values, reads>>
       ELSE /\ portfolio_value' = broker_value
            /\ reads' = [reads EXCEPT !.portfolio_value = @ + 1]
            /\ values' = PercentagesToValues(broker_value, call.amounts)
            /\ given' = ArgsToTargetValueOrders(given)
            /\ pc' = "target_value_orders"
            /\ UNCHANGED result
    /\ UNCHANGED <<env, call, current_prices, target_quantities, tolerance_quantities,
                   contract_to_positions, quantities, filled, events, prev>>

----------------------------------------------------------------------------
(* The broker and the market                                               *)

RECURSIVE Execute(_, _, _)
\* the holdings after the orders from i on are fully executed
Execute(order_list, i, held) ==
    IF i > Len(order_list) THEN held
    ELSE LET o == order_list[i]
             now == CurrentQuantity(held, o.contract)
         IN  Execute(order_list, i + 1,
                     [held EXCEPT ![o.contract] = Some(RAdd(now, o.quantity)[1])])

\* the broker fully executes the orders the request returned
Fill ==
    /\ pc = "done"
    /\ result.status = "returned"
    /\ result.orders # <<>>
    /\ ~filled
    /\ \A i \in DOMAIN result.orders : IsWhole(result.orders[i].quantity)
    /\ positions' = Execute(result.orders, 1, positions)
    /\ filled' = TRUE
    /\ UNCHANGED <<broker_value, price_table, mapping, pc, call, given, locals,
                   result, reads, events, prev>>

\* another actor changes the broker's state while a request is in progress:
\* a position is opened, changed or closed, or the portfolio value moves
BrokerUpdate ==
    /\ pc \in Methods
    /\ events < MaxEvents
    /\ \E b \in BrokerStates :
          /\ <<b.positions, b.value>> # <<positions, broker_value>>
          /\ positions' = b.positions
          /\ broker_value' = b.value
    /\ events' = events + 1
    /\ UNCHANGED <<price_table, mapping, pc, call, given, locals, result, reads,
                   filled, prev>>

\* the market moves while a request is in progress
PriceTick ==
    /\ pc \in Methods
    /\ events < MaxEvents
    /\ price_table' \in PriceTables \ {price_table}
    /\ events' = events + 1
    /\ UNCHANGED <<positions, broker_value, mapping, pc, call, given, locals, result,
                   reads, filled, prev>>

Next ==
    \/ Invoke
    \/ CallAgain
    \/ orders
    \/ target_orders
    \/ value_orders
    \/ percent_orders
    \/ target_value_orders
    \/ target_percent_orders
    \/ Fill
    \/ BrokerUpdate
    \/ PriceTick

Spec == Init /\ [][Next]_vars

----------------------------------------------------------------------------
(* Properties                                                              *)

Finished == pc = "done"
ReturnedOrders == result.status = "returned"
OrdersFor(contract) == {i \in DOMAIN result.orders : result.orders[i].contract = contract}
\* target_orders() has run in this request, directly or at the end of a delegation
Reconciled == Finished /\ reads.positions = 1

\* C1: whatever the request, the prices, the holdings and the tolerance, no Order
\* of the returned list has quantity 0.
C1_NoZeroQuantityOrder ==
    \A i \in DOMAIN result.orders : result.orders[i].quantity # Zero

\* C1 witness: a target_percent_orders request returned although the mapping
\* handed to orders() held a zero quantity (a difference floored to 0).
C1_Witness ==
    /\ Finished /\ ReturnedOrders
    /\ call.method = "target_percent_orders"
    /\ \E i \in DOMAIN quantities : quantities[i][2] = Zero

\* the quantity of the contract in the holdings target_orders() read, 0 when
\* they hold no position in it
HeldQuantity(contract) ==
    IF contract_to_positions[contract] = None THEN Zero
    ELSE Int2R(contract_to_positions[contract][1])

\* the real-valued amount the request computes for the contract: the quantity
\* given (orders), the shares resolved from the money (value_orders,
\* percent_orders) or the difference of the target to the holding read
ComputedAmount(contract) ==
    IF call.method = "orders" THEN Get(call.amounts, contract, Zero)
    ELSE IF call.method \in {"value_orders", "percent_orders"}
         THEN Get(target_quantities, contract, Zero)
         ELSE RSub(Get(target_quantities, contract, Zero),
                   HeldQuantity(contract))

\* q is the whole number with q <= x < q + 1
IsFloorOf(q, x) == IsWhole(q) /\ RLe(q, x) /\ RLt(x, RAdd(q, Int2R(1)))

C3_OneOrderPerNonZeroItem ==
    (Finished /\ call.method = "orders") =>
        /\ ReturnedOrders
        /\ \A k \in DOMAIN call.amounts :
              LET contract == call.amounts[k][1]
                  amount == call.amounts[k][2]
              IN  IF amount # Zero
                  THEN /\ Cardinality(OrdersFor(contract)) = 1
                       /\ \A i \in OrdersFor(contract) : result.orders[i].quantity = amount
                  ELSE OrdersFor(contract) = {}
        /\ Len(result.orders) = Cardinality({k \in DOMAIN call.amounts : call.amounts[k][2] # Zero})
        /\ \A i \in DOMAIN result.orders : HasKey(call.amounts, result.orders[i].contract)

\* C3 witness: orders() was given one item of amount 0 and one sell, and
\* returned.
C3_Witness ==
    /\ Finished /\ call.method = "orders"
    /\ \E k \in DOMAIN call.amounts : call.amounts[k][2] = Zero
    /\ \E k \in DOMAIN call.amounts : RSgn(call.amounts[k][2]) = -1
    /\ Len(result.orders) = 1

\* the tolerance of the contract in target_orders(): the entry of the mapping
\* the method was given, 0 without an entry or without a mapping
ToleranceOf(contract) ==
    LET given_to_method == IF call.method = "target_orders" THEN call.tolerance_quantities
                           ELSE tolerance_quantities
    IN  IF given_to_method = None THEN Zero ELSE Get(given_to_method[1], contract, Zero)

\* the difference target - current of the contract in target_orders()
DeltaOf(contract) ==
    RSub(Get(target_quantities, contract, Zero),
         HeldQuantity(contract))

\* every target and tolerance target_orders() was given is a real number
RealTargets ==
    \A k \in DOMAIN target_quantities :
        /\ IsFin(target_quantities[k][2])
        /\ IsFin(ToleranceOf(target_quantities[k][1]))

\* C4: target_orders() hands orders() a mapping that holds floor(delta) for a
\* contract exactly when |delta| > tolerance and delta is not 0; a delta equal
\* to the tolerance is not traded.  Holding 100 with tolerance 2: target 101
\* gives no order, target 103 gives one order of 3.
C4_StrictTolerance ==
    (Reconciled /\ RealTargets) =>
        /\ \A k \in DOMAIN target_quantities :
              LET contract == target_quantities[k][1]
                  delta == DeltaOf(contract)
              IN  IF RGt(RAbs(delta), ToleranceOf(contract)) /\ delta # Zero
                  THEN /\ HasKey(quantities, contract)
                       /\ IsFloorOf(Get(quantities, contract, NaN), delta)
                  ELSE ~HasKey(quantities, contract)
        /\ \A i \in DOMAIN quantities : HasKey(target_quantities, quantities[i][1])
        /\ ( /\ contract_to_positions["A"] = Some(100)
             /\ ToleranceOf("A") = Int2R(2)
             /\ Get(target_quantities, "A", Zero) = Int2R(101) ) => OrdersFor("A") = {}
        /\ ( /\ contract_to_positions["A"] = Some(100)
             /\ ToleranceOf("A") = Int2R(2)
             /\ Get(target_quantities, "A", Zero) = Int2R(103) )
           => /\ Cardinality(OrdersFor("A")) = 1
              /\ \A i \in OrdersFor("A") : result.orders[i].quantity = Int2R(3)

\* C4 witness: target_orders() met a difference equal to a positive tolerance
\* and left the contract out.
C4_Witness ==
    /\ Reconciled /\ RealTargets
    /\ \E k \in DOMAIN target_quantities :
          LET contract == target_quantities[k][1]
          IN  /\ RAbs(DeltaOf(contract)) = ToleranceOf(contract)
              /\ RSgn(ToleranceOf(contract)) = 1
              /\ ~HasKey(quantities, contract)

\* C5: a target equal to the quantity held (0 without a position) gives no
\* order for the contract, whatever the tolerance.
C5_EqualTargetNeverTrades ==
    Reconciled =>
        /\ call.method = "target_orders" => ReturnedOrders
        /\ \A k \in DOMAIN target_quantities :
              target_quantities[k][2] = HeldQuantity(target_quantities[k][1])
                  => OrdersFor(target_quantities[k][1]) = {}

\* C5 witness: target_orders() was given the quantity held of a position and a
\* negative tolerance for it.
C5_Witness ==
    /\ Reconciled /\ call.method = "target_orders"
    /\ \E k \in DOMAIN target_quantities :
          LET contract == target_quantities[k][1]
          IN  /\ contract_to_positions[contract] # None
              /\ target_quantities[k][2] = HeldQuantity(contract)
              /\ RSgn(ToleranceOf(contract)) = -1

\* the price the request read for the contract's ticker (NaN: none read)
PriceRead(contract) == Get(current_prices, mapping[contract], NaN)

\* price * contract multiplier of the contract
DivisorOf(contract) == RMul(PriceRead(contract), Int2R(contract_size(contract)))

\* exactly one order for the contract, its quantity floor(shares); none when
\* that floor is 0
OneOrderOfFloor(contract, shares) ==
    IF IsFloorOf(Zero, shares) THEN OrdersFor(contract) = {}
    ELSE /\ Cardinality(OrdersFor(contract)) = 1
         /\ \A i \in OrdersFor(contract) : IsFloorOf(result.orders[i].quantity, shares)

\* no two contracts of the request share a ticker
OneToOne ==
    \A j, k \in DOMAIN call.amounts :
        mapping[call.amounts[j][1]] = mapping[call.amounts[k][1]] => j = k

\* C6: value_orders() sizes each order from the money alone: for every contract
\* of the request with money v, price p and multiplier m, p * m not 0, the
\* returned list holds an order of floor(v / (p * m)) when that is not 0 and no
\* order otherwise; the holdings are not read.
C6_ValueOrdersSizedFromMoney ==
    (Finished /\ call.method = "value_orders" /\ ReturnedOrders) =>
        /\ reads.positions = 0
        /\ \A k \in DOMAIN call.amounts :
              LET contract == call.amounts[k][1]
                  divisor == DivisorOf(contract)
              IN  (IsFin(divisor) /\ divisor # Zero)
                    => OneOrderOfFloor(contract, RDiv(call.amounts[k][2], divisor))

\* C6, for the requests it holds of: those whose contracts have a ticker each.
C6_SizedFromMoneyOneToOne == OneToOne => C6_ValueOrdersSizedFromMoney

\* the previous issue of the request
Before == prev[1]

\* C7: value_orders() does not depend on the holdings: issued again for the
\* same values, with the same prices read, from any other state of the broker
\* (the one after its first orders were executed included), it returns the same
\* list.
C7_ValueOrdersIgnoreHoldings ==
    ( /\ Finished /\ call.method = "value_orders"
      /\ prev # None
      /\ Before.current_prices = current_prices )
    => result = Before.result

\* C7 witness: the orders value_orders() returned were executed, and the second
\* issue returned orders again.
C7_Witness ==
    /\ Finished /\ call.method = "value_orders"
    /\ prev # None
    /\ Before.filled
    /\ Before.current_prices = current_prices
    /\ result.orders # <<>>

\* the holdings once every order of the list is fully executed
AfterFill(order_list, held) ==
    [c \in Contracts |->
        IF \E i \in DOMAIN order_list : order_list[i].contract = c
        THEN LET i == CHOOSE i \in DOMAIN order_list : order_list[i].contract = c
                 was == IF held[c] = None THEN 0 ELSE held[c][1]
             IN  Some(was + order_list[i].quantity[1])
        ELSE held[c]]

\* the request is the second target_value_orders() of the same targets, at the
\* same prices, and the holdings it read are those the first one read with
\* the orders it returned fully executed
SecondAfterFill ==
    /\ Finished /\ call.method = "target_value_orders"
    /\ ToleranceInRange(call.tolerance_percentage)
    /\ prev # None
    /\ Before.result.status = "returned"
    /\ Before.current_prices = current_prices
    /\ reads.positions = 1
    /\ contract_to_positions = AfterFill(Before.result.orders, Before.contract_to_positions)

\* C8: target_value_orders() issued again once its orders are fully executed,
\* at an unchanged price and with a tolerance in [0, 1), returns no order.
C8_TargetAlreadyMet ==
    SecondAfterFill => (ReturnedOrders /\ result.orders = <<>>)

\* C8 witness: the first issue sold towards a target that is not a whole number
\* of shares, the sale was executed, and the request was issued again.
C8_Witness ==
    /\ SecondAfterFill
    /\ Before.filled
    /\ \E i \in DOMAIN Before.result.orders :
          /\ RSgn(Before.result.orders[i].quantity) = -1
          /\ ~IsWhole(Get(target_quantities, Before.result.orders[i].contract, Zero))

\* C9: target_value_orders() with the holding of a contract worth c at the
\* price read and a target value v: no order when |v - c| <= tolerance * v, and
\* otherwise the order of floor((v - c) / (price * multiplier)) shares (none
\* when that floor is 0).
C9_PercentageTolerance ==
    (Finished /\ call.method = "target_value_orders" /\ ReturnedOrders) =>
        \A k \in DOMAIN call.amounts :
            LET contract == call.amounts[k][1]
                v == call.amounts[k][2]
                divisor == DivisorOf(contract)
                c == RMul(HeldQuantity(contract), divisor)
                within == RLe(RAbs(RSub(v, c)), RMul(call.tolerance_percentage, v))
            IN  (IsFin(divisor) /\ RSgn(divisor) = 1)
                  => IF within THEN OrdersFor(contract) = {}
                     ELSE OneOrderOfFloor(contract, RDiv(RSub(v, c), divisor))

\* C9, for the requests it holds of: those whose contracts have a ticker each.
C9_PercentageToleranceOneToOne == OneToOne => C9_PercentageTolerance

\* the money amounts portfolio value * percentage of the request
ShareOfPortfolio ==
    [i \in DOMAIN call.amounts |->
        <<call.amounts[i][1], RMul(portfolio_value, call.amounts[i][2])>>]

\* the arguments of the request that a delegation passes on
CallArgs ==
    [execution_style |-> call.execution_style, time_in_force |-> call.time_in_force,
     tolerance_percentage |-> call.tolerance_percentage, frequency |-> call.frequency]

\* the prices the request read, as a price table
PricesRead == [f \in Frequencies |-> [t \in Tickers |-> Get(current_prices, t, NaN)]]

\* C10: percent_orders() returns what value_orders() returns for the money
\* amounts portfolio value * percentage, and target_percent_orders() what
\* target_value_orders() returns for them, on the same prices and holdings, the
\* tolerance and the frequency passed on unchanged.
C10_PercentIsValueOfShare ==
    Finished =>
        /\ call.method = "percent_orders" =>
              /\ reads.portfolio_value = 1
              /\ given = CallArgs
              /\ result = ValueOrders(ShareOfPortfolio, call.execution_style,
                                      call.time_in_force, call.frequency, mapping,
                                      PricesRead).result
        /\ call.method = "target_percent_orders" =>
              /\ given = CallArgs
              /\ result = TargetValueOrders(ShareOfPortfolio, call.execution_style,
                                            call.time_in_force, call.tolerance_percentage,
                                            call.frequency, mapping, PricesRead,
                                            contract_to_positions)

\* C10 witness: target_percent_orders() with a tolerance of 10% and the minute
\* frequency returned orders.
C10_Witness ==
    /\ Finished /\ call.method = "target_percent_orders"
    /\ call.tolerance_percentage = R(1, 10)
    /\ call.frequency = "MIN_1"
    /\ result.orders # <<>>

\* the tolerance fraction of the request lies outside [0, 1)
OutOfRange == RLt(call.tolerance_percentage, Zero) \/ RGe(call.tolerance_percentage, Int2R(1))

\* C11: target_value_orders() and target_percent_orders() given a tolerance
\* fraction outside [0, 1) read nothing (portfolio value, mapper, prices,
\* positions) at any point of the call, and end by raising the assertion's
\* error with no order returned.
C11_ValidationBeforeReads ==
    (call.method \in {"target_value_orders", "target_percent_orders"} /\ OutOfRange) =>
        /\ reads = NoReads
        /\ pc \in {call.method, "done"}
        /\ Finished => /\ result.status = "raised"
                       /\ result.error = "AssertionError"
                       /\ result.orders = <<>>

\* C11 witness: target_percent_orders() with a tolerance fraction of 1.0 has
\* raised.
C11_Witness ==
    /\ Finished /\ call.method = "target_percent_orders"
    /\ call.tolerance_percentage = R(1, 1)
    /\ result.status = "raised"

\* the four methods that take money amounts or percentages
MoneyMethods == {"value_orders", "percent_orders", "target_value_orders",
                 "target_percent_orders"}

\* the contracts of the request
Requested == {call.amounts[k][1] : k \in DOMAIN call.amounts}

\* the mapper knows no ticker for the contract
NoTicker(contract) == mapping[contract] = Unmapped

\* the data provider was asked for the price of the contract's ticker and had none
NoPrice(contract) ==
    /\ ~NoTicker(contract)
    /\ HasKey(current_prices, mapping[contract])
    /\ IsNaN(Get(current_prices, mapping[contract], Zero))

\* C12: a money or percentage request one of whose contracts has no ticker in
\* the mapper, or no price in the data provider, ends by raising and returns no
\* order for any contract of the request.
C12_AllOrNothing ==
    ( /\ Finished /\ call.method \in MoneyMethods
      /\ \E contract \in Requested : NoTicker(contract) \/ NoPrice(contract) )
    => /\ result.status = "raised"
       /\ result.error \in {"MappingFault", "PriceUnavailableFault", "AssertionError"}
       /\ result.orders = <<>>

\* C12 witness: a request for two contracts, one without a ticker and one whose
\* money amount is worth whole shares at its price, has raised.
C12_Witness ==
    /\ Finished /\ call.method = "target_value_orders"
    /\ call.amounts = << <<"B", R(500, 1)>>, <<"A", R(250, 1)>> >>
    /\ NoTicker("B") /\ mapping["A"] = "TA"
    /\ price_table[call.frequency]["TA"] = R(100, 1)
    /\ result.error = "MappingFault"

\* a price was read for the contract and price * contract_size is 0
ZeroDivisor(contract) == DivisorOf(contract) = Zero

\* C13: a money or percentage request one of whose contracts has
\* price * contract multiplier = 0 never returns normally: it ends by raising
\* (whatever the class of the error) and returns no orders.
C13_ZeroDivisorIsFault ==
    ( /\ Finished /\ call.method \in MoneyMethods
      /\ \E contract \in Requested : ZeroDivisor(contract) )
    => /\ result.status = "raised"
       /\ result.orders = <<>>

\* C13, for the two methods it holds of with a money amount that is not 0:
\* value_orders() and percent_orders() raise from math.floor (OverflowError), not
\* a price fault.
C13_ValueOrdersFloorRaises ==
    ( /\ Finished /\ call.method \in {"value_orders", "percent_orders"}
      /\ \E contract \in Requested : ZeroDivisor(contract) )
    => /\ result.status = "raised"
       /\ result.error \in {"OverflowError", "ValueError"}

\* target_value_orders() has resolved the shares and handed target_orders() its
\* tolerances
TolerancesPassed ==
    /\ call.method \in {"target_value_orders", "target_percent_orders"}
    /\ pc \in {"target_orders", "done"}
    /\ reads.prices = 1
    /\ tolerance_quantities # None

\* C14: with a tolerance fraction in [0, 1), every tolerance in shares that
\* target_value_orders() hands to target_orders() for a contract of positive
\* price and multiplier is >= 0, whatever the sign of the money amount.
C14_ToleranceSharesNonNegative ==
    TolerancesPassed =>
        \A k \in DOMAIN tolerance_quantities[1] :
            LET contract == tolerance_quantities[1][k][1]
                divisor == DivisorOf(contract)
            IN  (IsFin(divisor) /\ RSgn(divisor) = 1)
                  => RGe(tolerance_quantities[1][k][2], Zero)

\* C14, for the money amounts it holds of: those that are not negative.
C14_NonNegativeForLongTargets ==
    (TolerancesPassed /\ \A k \in DOMAIN values : RGe(values[k][2], Zero)) =>
        \A k \in DOMAIN tolerance_quantities[1] :
            LET contract == tolerance_quantities[1][k][1]
                divisor == DivisorOf(contract)
            IN  (IsFin(divisor) /\ RSgn(divisor) = 1)
                  => RGe(tolerance_quantities[1][k][2], Zero)

\* C15: within one request every external datum is read at most once: the
\* positions, the portfolio value and the prices, through every delegation; a
\* request that went from target_percent_orders() down to orders() has read
\* each exactly once.
C15_SnapshotReads ==
    /\ reads.positions <= 1
    /\ reads.portfolio_value <= 1
    /\ reads.prices <= 1
    /\ (Finished /\ ReturnedOrders /\ call.method = "target_percent_orders")
         => (reads.positions = 1 /\ reads.portfolio_value = 1 /\ reads.prices = 1)

\* C15 witness: target_percent_orders() for two contracts of two tickers has
\* returned orders after its delegations.
C15_Witness ==
    /\ Finished /\ call.method = "target_percent_orders"
    /\ Len(call.amounts) = 2 /\ Len(current_prices) = 2
    /\ reads = [portfolio_value |-> 1, mapper |-> 2, prices |-> 1, positions |-> 1]
    /\ result.orders # <<>>

\* a step of the request itself, not of the broker, the market or the caller
MethodStep == pc \in Methods /\ events' = events

\* C16: no step of any of the six methods changes its inputs: the caller's
\* allocation mapping and tolerance mapping (and the other arguments) and the
\* broker's positions and portfolio value are the same after the step, whether
\* the call goes on, returns or raises.
C16_InputsNotMutated ==
    [][MethodStep => /\ call' = call
                     /\ positions' = positions
                     /\ broker_value' = broker_value]_vars

\* C16 witness: target_orders() given a tolerance mapping that lacks one of the
\* two contracts has returned orders.
C16_Witness ==
    /\ Finished /\ call.method = "target_orders"
    /\ call.tolerance_quantities = Some(<< <<"A", R(2, 1)>> >>)
    /\ Len(call.amounts) = 2
    /\ result.orders # <<>>

\* C17: every Order a request returns carries the execution_style and the
\* time_in_force the caller gave to the outermost method.
C17_StyleAndTimeInForcePassedThrough ==
    (Finished /\ ReturnedOrders) =>
        \A i \in DOMAIN result.orders :
            /\ result.orders[i].execution_style = call.execution_style
            /\ result.orders[i].time_in_force = call.time_in_force

\* C17 witness: target_percent_orders(), three delegations deep, returned orders
\* for a StopOrder, GTC request.
C17_Witness ==
    /\ Finished /\ call.method = "target_percent_orders"
    /\ call.execution_style = "StopOrder" /\ call.time_in_force = "GTC"
    /\ result.orders # <<>>

\* C18: in target_orders() a difference target - current that is not a whole
\* number is floored as a signed value: a negative one gives a sell larger than
\* the difference by less than one share (-2.3 gives -3), a positive one a buy
\* smaller than it by less than one share (2.3 gives 2).
C18_FloorOfSignedDelta ==
    (Reconciled /\ ReturnedOrders) =>
        \A i \in DOMAIN result.orders :
            LET q == result.orders[i].quantity
                delta == DeltaOf(result.orders[i].contract)
                one == Int2R(1)
            IN  (IsFin(delta) /\ ~IsWhole(delta)) =>
                  /\ IsWhole(q)
                  /\ RSgn(delta) = -1 =>
                        /\ RSgn(q) = -1
                        /\ RGt(RAbs(q), RAbs(delta))
                        /\ RLt(RSub(RAbs(q), RAbs(delta)), one)
                  /\ RSgn(delta) = 1 =>
                        /\ RSgn(q) = 1
                        /\ RLt(RAbs(q), RAbs(delta))
                        /\ RLt(RSub(RAbs(delta), RAbs(q)), one)
                  /\ delta = R(-23, 10) => q = Int2R(-3)
                  /\ delta = R(23, 10) => q = Int2R(2)

\* C18 witness: target_orders() returned a sell for a difference of -2.3.
C18_Witness ==
    /\ Reconciled /\ call.method = "target_orders"
    /\ \E i \in DOMAIN result.orders :
          /\ DeltaOf(result.orders[i].contract) = R(-23, 10)
          /\ result.orders[i].quantity = Int2R(-3)

\* the holding of the contract once the order of quantity q is fully executed:
\* the broker's position after the fill, current + q before it
PostFill(contract, q) ==
    IF filled /\ positions[contract] # None THEN Int2R(positions[contract][1])
    ELSE RAdd(HeldQuantity(contract), q)

\* C19: for every order target_orders() returns, directly or at the end of
\* target_value_orders() / target_percent_orders(), the holding after the fill is
\* a whole number with holding <= target < holding + 1, for buys and sells.
C19_NeverOvershoots ==
    (Reconciled /\ ReturnedOrders) =>
        \A i \in DOMAIN result.orders :
            LET contract == result.orders[i].contract
                target == Get(target_quantities, contract, NaN)
                after == PostFill(contract, result.orders[i].quantity)
            IN  /\ IsWhole(after)
                /\ RLe(after, target)
                /\ RLt(RSub(target, after), Int2R(1))

\* C19 witness: the broker executed a sell that target_value_orders() returned
\* towards a target that is not a whole number of shares.
C19_Witness ==
    /\ Reconciled /\ ReturnedOrders /\ filled
    /\ call.method = "target_value_orders"
    /\ \E i \in DOMAIN result.orders :
          /\ RSgn(result.orders[i].quantity) = -1
          /\ ~IsWhole(Get(target_quantities, result.orders[i].contract, Zero))
          /\ positions[result.orders[i].contract] # None

\* the contract's share amount is traded by the request: for value_orders() its
\* floor is not 0; for target_value_orders() the difference to the holding is
\* outside the tolerance and its floor is not 0
Traded(contract, v) ==
    LET shares == RDiv(v, DivisorOf(contract))
        delta == RSub(shares, HeldQuantity(contract))
    IN  IF call.method = "value_orders" THEN ~IsFloorOf(Zero, shares)
        ELSE /\ RGt(RAbs(delta), RMul(shares, call.tolerance_percentage))
             /\ ~IsFloorOf(Zero, delta)

\* C20: a value_orders() or target_value_orders() request that returns holds
\* exactly one order for every contract of the request whose share amount is
\* traded, also when the mapper gives two contracts of the request one ticker.
C20_NoInstrumentLost ==
    ( /\ Finished /\ ReturnedOrders
      /\ call.method \in {"value_orders", "target_value_orders"} )
    => \A k \in DOMAIN call.amounts :
          LET contract == call.amounts[k][1]
              divisor == DivisorOf(contract)
          IN  (IsFin(divisor) /\ divisor # Zero /\ Traded(contract, call.amounts[k][2]))
                => Cardinality(OrdersFor(contract)) = 1

\* C20, for the requests it holds of: those whose contracts have a ticker each.
C20_NoInstrumentLostOneToOne == OneToOne => C20_NoInstrumentLost

\* the money an order of quantity q of the contract is worth at the price read
WorthOf(contract, q) == RMul(q, DivisorOf(contract))

\* the request is a finished value_orders() or percent_orders() that returned
SpentByValue ==
    /\ Finished /\ ReturnedOrders
    /\ call.method \in {"value_orders", "percent_orders"}

\* C21 as stated: every order value_orders() / percent_orders() returns for a
\* contract of positive price and multiplier and money amount v is worth at
\* most |v| and has the sign of v.
C21_BudgetBound ==
    SpentByValue =>
        \A i \in DOMAIN result.orders :
            LET contract == result.orders[i].contract
                q == result.orders[i].quantity
                v == Get(values, contract, NaN)
            IN  (IsFin(DivisorOf(contract)) /\ RSgn(DivisorOf(contract)) = 1) =>
                  /\ RLe(RAbs(WorthOf(contract, q)), RAbs(v))
                  /\ RSgn(q) = RSgn(v)

\* C21 amended: the order has the sign of v; for v > 0 it is worth at most v,
\* for v < 0 it is a sell worth at least |v| and less than |v| plus the price of
\* one share times the multiplier.
C21_WithinOneShareOfBudget ==
    SpentByValue =>
        \A i \in DOMAIN result.orders :
            LET contract == result.orders[i].contract
                q == result.orders[i].quantity
                v == Get(values, contract, NaN)
                worth == RAbs(WorthOf(contract, q))
            IN  (IsFin(DivisorOf(contract)) /\ RSgn(DivisorOf(contract)) = 1) =>
                  /\ RSgn(q) = RSgn(v)
                  /\ RSgn(v) = 1 => RLe(worth, v)
                  /\ RSgn(v) = -1 =>
                        /\ RGe(worth, RAbs(v))
                        /\ RLt(worth, RAdd(RAbs(v), DivisorOf(contract)))

\* C21 witness: percent_orders() returned a sell worth more than the money
\* amount it was computed from.
C21_Witness ==
    /\ SpentByValue /\ call.method = "percent_orders"
    /\ \E i \in DOMAIN result.orders :
          LET contract == result.orders[i].contract
              v == Get(values, contract, NaN)
          IN  /\ RSgn(v) = -1
              /\ RSgn(DivisorOf(contract)) = 1
              /\ RGt(RAbs(WorthOf(contract, result.orders[i].quantity)), RAbs(v))

\* what target_percent_orders() returns when the portfolio value and the
\* positions are both those of the broker state b, at the prices the request read
OnSnapshot(b) ==
    TargetValueOrders(
        [i \in DOMAIN call.amounts |->
            <<call.amounts[i][1], RMul(b.value, call.amounts[i][2])>>],
        call.execution_style, call.time_in_force, call.tolerance_percentage,
        call.frequency, mapping, PricesRead, b.positions)

\* the states the broker can have been in during the request: the states other
\* actors put it in, the state the positions were read in, and for a request
\* issued again the state its predecessor left with the value read
SnapshotStates ==
    BrokerStates
    \cup {[positions |-> contract_to_positions, value |-> broker_value]}
    \cup (IF prev = None THEN {}
          ELSE {[positions |-> Before.positions, value |-> portfolio_value]})

\* C22: whatever the broker does between the steps of one
\* target_percent_orders() call, the orders it returns are those computed from
\* the portfolio value and the positions of one and the same broker state.
C22_OneBrokerState ==
    (Finished /\ ReturnedOrders /\ call.method = "target_percent_orders") =>
        \E b \in SnapshotStates : result = OnSnapshot(b)

\* C22, for the behaviours it holds of: those in which no other actor acts.
C22_OneBrokerStateWhenQuiet == events = 0 => C22_OneBrokerState

====
